---- MODULE Spec2Model ----
(***************************************************************************)
(* Model of the secure-chat messaging core:                                *)
(*   - the server's JSON-file message store (server/utils/database.js)     *)
(*     and its message endpoints (server/index.js);                        *)
(*   - the client synchronizer hook useMessages (hooks/useMessages.ts):    *)
(*     loadHistory, pollForMessages, the polling effect and                *)
(*     sendEncryptedMessage, as mounted by ChatView.                       *)
(* One client (own id userId) is observed; the other identities act only   *)
(* as senders.  File reads and writes are taken to be atomic, and every     *)
(* createMessage reads a later clock value than the one before it.  The    *)
(* hook stays mounted: logout and unmount are not part of the model.       *)
(***************************************************************************)
EXTENDS Integers, Sequences, FiniteSets, TLC

\* ------------------------------------------------------------------ bounds
MaxSends == 1          \* send operations started in one behaviour
MaxScopeChanges == 1   \* contact selections in one behaviour
MaxRefresh == 1        \* manual refreshes in one behaviour
MaxInbox == 2          \* direct sends to the observed client in one behaviour
MaxPollChecks == 2     \* waits of one long poll before its timeout
MaxResolves == 3       \* getCachedPublicKey calls in one behaviour
MaxGenerated == 2      \* key pairs generated on the device in one behaviour
MaxReloads == 2        \* page loads that end a running operation
MaxPlainLen == 3       \* code units of a plaintext

\* --------------------------------------------------------------- constants
Users == {1, 2, 3}     \* identities A(1), B(2), C(3)
userId == 1            \* own id of the observed client
NoRecipient == 0       \* recipientId null: broadcast
HistoryLimit == 50     \* api.getMessageHistory(50)
MinKeyLength == 100    \* shortest stripped length isLikelyPlaceholderKey accepts
NoSince == -1          \* a poll request without the since parameter

\* raw public-key strings, by what the code looks at: the length left after
\* stripping whitespace and dashes, whether the string contains "...", and
\* whether importPublicKey accepts it
KeyValid == [len |-> MinKeyLength, marker |-> FALSE, spki |-> TRUE]
KeyEmpty == [len |-> 0, marker |-> FALSE, spki |-> FALSE]
KeyMarker == [len |-> MinKeyLength + 20, marker |-> TRUE, spki |-> FALSE]
KeyShort == [len |-> MinKeyLength - 1, marker |-> FALSE, spki |-> FALSE]
KeyMalformed == [len |-> MinKeyLength, marker |-> FALSE, spki |-> FALSE]
KeyStrings == {KeyValid, KeyEmpty, KeyMarker, KeyShort, KeyMalformed}
\* the key string of a user after the key was replaced at the server
KeyRotated == [len |-> MinKeyLength + 4, marker |-> FALSE, spki |-> TRUE]

VARIABLES
  publicKey,       \* publicKey of each user in the database
  file,            \* messages array of the database file (durable)
  dbCache,         \* messages array of the in-memory dbCache
  clock,           \* server wall clock (timestamp source)
  ops,             \* send operations started so far, in start order
  posts,           \* POST /api/messages requests not yet handled
  writes,          \* fs.writeFile calls issued by createMessage, not yet done
  recipientId,     \* selectedUserId: the current scope
  pollRecipientId, \* recipientId captured by the pollForMessages closure
  messages,        \* the visible set (React state)
  lastMessageId,   \* the cursor (ref)
  pollingRef,      \* loop whose timer id pollingRef.current holds
  timers,          \* loops with a pending setTimeout(poll, 5000)
  effectRun,       \* number of runs of the polling effect so far
  polls,           \* poll requests in flight
  histories,       \* history requests in flight
  nRefresh,        \* manual refreshes so far
  publicKeyCache,  \* Map userId -> {raw, key} of useMessages
  resolves,        \* getCachedPublicKey calls made so far, in call order
  localStorage,    \* secure_msg_user, secure_msg_token, secure_msg_private_key
  privateKeys,     \* the IndexedDB object store "privateKeys"
  authState,       \* the state of useAuth
  call,            \* the running operation of useAuth and its position
  requests,        \* requests the client has sent to the server
  generated,       \* key pairs generated so far
  reloads,         \* page loads so far
  published,       \* pair of the public key the server holds for each user
  plaintext,       \* the string given to encryptMessage
  envelope,        \* <<the envelope made from it>>, <<>> before
  opened,          \* <<what decryptSingleMessage made of the envelope>>
  database,        \* dbCache of the server: users, messages and sessions
  databaseFile,    \* the database file: users, messages and sessions
  registrations,   \* POST /api/register requests, in arrival order
  appends          \* POST /api/messages requests with their bodies

vars == <<publicKey, file, dbCache, clock, ops, posts, writes, recipientId,
          pollRecipientId, messages, lastMessageId, pollingRef, timers,
          effectRun, polls, histories, nRefresh, publicKeyCache, resolves,
          localStorage, privateKeys, authState, call, requests, generated,
          reloads, published, plaintext, envelope, opened, database,
          databaseFile, registrations, appends>>

serverVars == <<publicKey, file, dbCache, clock, ops, posts, writes>>
clientVars == <<recipientId, pollRecipientId, messages, lastMessageId,
                pollingRef, timers, effectRun, polls, histories, nRefresh>>
cacheVars == <<publicKeyCache, resolves>>
authVars == <<localStorage, privateKeys, authState, call, requests, generated,
              reloads, published>>
cryptoVars == <<plaintext, envelope, opened>>
apiVars == <<database, databaseFile, registrations, appends>>
deviceVars == <<cacheVars, authVars, cryptoVars, apiVars>>

\* ------------------------------------------------------------ crypto model
\* AES-GCM ciphertext of plaintext p under one-time key k and nonce iv
EncryptMessage(p, k, iv) == [aes |-> k, iv |-> iv, plain |-> p]
\* RSA-OAEP wrapping of key k under the public key of identity u
EncryptAESKey(k, u) == [aes |-> k, wrappedFor |-> u]
\* unwrapping succeeds only with the private key of the identity wrapped for
CanDecryptAESKey(ek, owner) == ek.wrappedFor = owner
DecryptAESKey(ek, owner) == ek.aes
\* AES-GCM decryption succeeds only with the key and iv used to encrypt
CanDecryptMessage(ct, iv, k) == ct.aes = k /\ ct.iv = iv
DecryptMessage(ct, iv, k) == ct.plain

\* mutant: the pre-flight check without the length test
IsLikelyPlaceholderKey_Mutant(k) == k.len = 0 \/ k.marker

\* isLikelyPlaceholderKey(publicKeyString)
IsLikelyPlaceholderKey(k) == k.len = 0 \/ k.marker \/ k.len < MinKeyLength

\* importPublicKey(publicKeyString) does not throw
ImportsPublicKey(k) == k.spki

\* --------------------------------------------------------------- the store
\* getMessages(limit): the last `limit` messages
GetMessages(db, limit) ==
  IF Len(db) > limit THEN SubSeq(db, Len(db) - limit + 1, Len(db)) ELSE db

\* mutant: the comparison lets the cursor's own envelope through
GetMessagesSince_Mutant(db, since) == SelectSeq(db, LAMBDA m : m.id >= since)

\* getMessagesSince(messageId): messages with parseInt(id) > idNum
GetMessagesSince(db, since) == SelectSeq(db, LAMBDA m : m.id > since)

\* id assigned by createMessage
NewMessageId(db) == Len(db) + 1

\* ---------------------------------------------------------- send operations
IsDirect(op) == op.target # NoRecipient

\* the copies a send appends: recipient and sender copy, or one per user
Copies(op) == IF IsDirect(op) THEN {1, 2} ELSE Users

\* mutant: the sender copy is addressed to the recipient again
CopyRecipient_Mutant(op, c) ==
  IF op.target # NoRecipient THEN op.target ELSE NoRecipient

CopyRecipient(op, c) ==
  IF IsDirect(op) THEN (IF c = 1 THEN op.target ELSE op.senderId)
  ELSE NoRecipient

CopyKeyOwner(op, c) ==
  IF IsDirect(op) THEN (IF c = 1 THEN op.target ELSE op.senderId)
  ELSE c

\* the message createMessage stores for copy c of send m; the send's
\* plaintext, one-time AES key and nonce are all named by its number m
NewMessage(m, c, db, now) ==
  [id |-> NewMessageId(db),
   senderId |-> ops[m].senderId,
   recipientId |-> CopyRecipient(ops[m], c),
   encryptedContent |-> EncryptMessage(m, m, m),
   encryptedKey |-> EncryptAESKey(m, CopyKeyOwner(ops[m], c)),
   iv |-> m,
   timestamp |-> now]

\* --------------------------------------------------- client-side functions
\* decryptSingleMessage returns non-null
Decrypts(msg) ==
  /\ CanDecryptAESKey(msg.encryptedKey, userId)
  /\ CanDecryptMessage(msg.encryptedContent, msg.iv,
                       DecryptAESKey(msg.encryptedKey, userId))

DecryptSingleMessage(msg) ==
  [id |-> msg.id,
   senderId |-> msg.senderId,
   content |-> DecryptMessage(msg.encryptedContent, msg.iv,
                              DecryptAESKey(msg.encryptedKey, userId)),
   timestamp |-> msg.timestamp,
   isOwn |-> (msg.senderId = userId)]

\* the scope filter of loadHistory and pollForMessages, rid the closure's
\* recipientId
PassesFilter(msg, rid) ==
  IF rid # NoRecipient
  THEN \/ (msg.senderId = rid /\ msg.recipientId = userId)
       \/ (msg.senderId = userId /\ msg.recipientId = rid)
       \/ (msg.senderId = userId /\ msg.recipientId = userId)
       \/ (msg.senderId = rid /\ msg.recipientId = NoRecipient)
  ELSE TRUE

DecryptBatch_Mutant(batch, rid) ==
  LET kept == SelectSeq(batch, LAMBDA m : Decrypts(m) /\ PassesFilter(m, rid))
  IN IF \E i \in DOMAIN batch : ~Decrypts(batch[i]) THEN <<>>
     ELSE [i \in 1..Len(kept) |-> DecryptSingleMessage(kept[i])]

\* the decrypted array built by the for loop over a batch
DecryptBatch(batch, rid) ==
  LET kept == SelectSeq(batch, LAMBDA m : Decrypts(m) /\ PassesFilter(m, rid))
  IN [i \in 1..Len(kept) |-> DecryptSingleMessage(kept[i])]

\* Array.from(new Map(arr.map(m => [m.id, m])).values()): one entry per id,
\* at the position of the id's first occurrence, holding its last occurrence
LastWithId(arr, id) ==
  arr[CHOOSE i \in 1..Len(arr) :
        /\ arr[i].id = id
        /\ \A j \in (i+1)..Len(arr) : arr[j].id # id]

\* mutant: no deduplication
UniqueById_Mutant(arr, i) == arr

RECURSIVE UniqueById(_, _)
UniqueById(arr, i) ==
  IF i > Len(arr) THEN <<>>
  ELSE IF \E j \in 1..(i-1) : arr[j].id = arr[i].id
       THEN UniqueById(arr, i + 1)
       ELSE <<LastWithId(arr, arr[i].id)>> \o UniqueById(arr, i + 1)

\* stable sort by timestamp ascending
RECURSIVE InsertByTimestamp(_, _)
InsertByTimestamp(sorted, m) ==
  IF sorted = <<>> THEN <<m>>
  ELSE IF m.timestamp < Head(sorted).timestamp THEN <<m>> \o sorted
       ELSE <<Head(sorted)>> \o InsertByTimestamp(Tail(sorted), m)

\* mutant: no sort
SortByTimestamp_Mutant(arr) == arr

RECURSIVE SortByTimestamp(_)
SortByTimestamp(arr) ==
  IF arr = <<>> THEN <<>>
  ELSE InsertByTimestamp(SortByTimestamp(SubSeq(arr, 1, Len(arr) - 1)),
                         arr[Len(arr)])

UniqueSorted(arr) == SortByTimestamp(UniqueById(arr, 1))

\* ------------------------------------------------------------ the device
\* crypto.subtle.importKey("spki", ..): the handle made from a key string
ImportPublicKey(raw) == [imported |-> raw]

\* the handle of a call that has not returned one
NoHandle == [imported |-> KeyEmpty]

\* key strings that reach getCachedPublicKey: two keys and a string that the
\* import rejects
CacheRaws == {KeyValid, KeyRotated, KeyMalformed}

\* useMessages before its first send: nothing imported yet
CacheAtRest ==
  /\ publicKeyCache = <<>>
  /\ resolves = <<>>

NoUser == 0            \* no user (null)
NoPair == 0            \* no CryptoKey (null)
LegacyPair == 1        \* the key pair an earlier version left in localStorage
StoredPair == 2        \* the key pair already in the secure store
Unregistered == -1     \* no user of this id in the database

\* exportPublicKey / exportPrivateKey: the string of a key of pair n
ExportPublicKey(n) == [kind |-> "public", pair |-> n]
ExportPrivateKey(n) == [kind |-> "private", pair |-> n]
NoKey == [kind |-> "none", pair |-> NoPair]

\* importPrivateKey: the CryptoKey of a private key string
ImportPrivateKey(str) == str.pair

\* op: the operation, pc: where it stands, key: the private key string it
\* holds, read: what its getPrivateKey returned, result: what it returned
Idle == [op |-> "none", pc |-> "done", user |-> NoUser, key |-> NoKey,
         read |-> NoKey, result |-> "none"]

SignedOut(loading) ==
  [user |-> NoUser, token |-> FALSE, privateKey |-> NoPair,
   isAuthenticated |-> FALSE, isLoading |-> loading]

SignedIn(u, pair) ==
  [user |-> u, token |-> TRUE, privateKey |-> pair,
   isAuthenticated |-> TRUE, isLoading |-> FALSE]

\* the observed client is logged in and its key is in the secure store
SessionAtRest ==
  /\ localStorage = [user |-> userId, token |-> TRUE, privateKey |-> NoKey]
  /\ privateKeys = [u \in Users |->
                      IF u = userId THEN ExportPrivateKey(StoredPair) ELSE NoKey]
  /\ authState = SignedIn(userId, StoredPair)
  /\ call = Idle
  /\ requests = {}
  /\ generated = 0
  /\ reloads = 0
  /\ published = [u \in Users |-> StoredPair]

\* nothing encrypted yet
CryptoAtRest ==
  /\ plaintext = <<>>
  /\ envelope = <<>>
  /\ opened = <<>>

\* the database loadDatabase creates when there is no file
EmptyDatabase == [users |-> <<>>, messages |-> <<>>, sessions |-> {}]

\* no request has reached the account and append handlers
ApiAtRest ==
  /\ database = EmptyDatabase
  /\ databaseFile = EmptyDatabase
  /\ registrations = <<>>
  /\ appends = <<>>

\* ---------------------------------------------------------------- requests
\* a loadHistory call: run is the effect run it was made in, refresh the
\* number of the manual refresh that made it (0: made by the effect)
NewHistory(run, refresh, rid) ==
  [run |-> run, refresh |-> refresh, filt |-> rid, answered |-> FALSE,
   batch |-> <<>>]

NewPoll(loop) ==
  [loop |-> loop, since |-> lastMessageId, filt |-> pollRecipientId,
   run |-> effectRun, answered |-> FALSE, batch |-> <<>>, checks |-> 0]

\* ChatView mounted after login: selectedUserId is null, the effect has run
\* once (loadHistory issued, first timer set); the database file holds no
\* message and the users' public keys are keys
InitMessaging(keys) ==
  /\ publicKey = keys
  /\ file = <<>>
  /\ dbCache = <<>>
  /\ clock = 0
  /\ ops = <<>>
  /\ posts = {}
  /\ writes = {}
  /\ recipientId = NoRecipient
  /\ pollRecipientId = NoRecipient
  /\ messages = <<>>
  /\ lastMessageId = 0
  /\ pollingRef = 1
  /\ timers = {1}
  /\ effectRun = 1
  /\ polls = {}
  /\ histories = {NewHistory(1, 0, NoRecipient)}
  /\ nRefresh = 0

InitWith(keys) ==
  /\ InitMessaging(keys)
  /\ CacheAtRest
  /\ SessionAtRest
  /\ CryptoAtRest
  /\ ApiAtRest

\* every user registered with a valid key
Init == InitWith([u \in Users |-> KeyValid])

\* users whose stored key may be a placeholder or malformed
InitSend == \E keys \in [Users -> KeyStrings] : InitWith(keys)

\* ------------------------------------------------------------------- sends
\* what sendEncryptedMessage returns; Pending while it has not returned
Pending == [done |-> FALSE, success |-> FALSE, error |-> "none"]
Returned(success, error) == [done |-> TRUE, success |-> success, error |-> error]

\* state of copy c when sendEncryptedMessage(content, name, t) has started: a
\* direct send posts the recipient copy once the recipient's key passed the
\* pre-flight check and was imported; a broadcast starts one task per user,
\* which skips a placeholder key, fails on a key that does not import and
\* posts otherwise
FirstState(t, c) ==
  IF t # NoRecipient
  THEN IF /\ c = 1
          /\ ~IsLikelyPlaceholderKey(publicKey[t])
          /\ ImportsPublicKey(publicKey[t])
       THEN "sent" ELSE "idle"
  ELSE IF IsLikelyPlaceholderKey(publicKey[c]) THEN "skipped"
       ELSE IF ImportsPublicKey(publicKey[c]) THEN "sent" ELSE "failed"

\* mutant: the join returns at the first failed task
BroadcastResult_Mutant(res) ==
  IF \E c \in Users : res[c].st = "failed" THEN Returned(FALSE, "none")
  ELSE IF \E c \in Users : res[c].st = "sent" THEN Pending
  ELSE IF ~(\E c \in Users : res[c].st = "ok")
       THEN Returned(FALSE, "No recipients have a valid public key")
       ELSE Returned(\A c \in Users : res[c].st = "ok", "none")

\* the result of a broadcast once Promise.all(sendPromises) has resolved
BroadcastResult(res) ==
  IF \E c \in Users : res[c].st = "sent" THEN Pending
  ELSE IF ~(\E c \in Users : res[c].st = "ok")
       THEN Returned(FALSE, "No recipients have a valid public key")
       ELSE Returned(\A c \in Users : res[c].st = "ok", "none")

\* the result right after the start
FirstResult(t, res) ==
  IF t # NoRecipient
  THEN IF IsLikelyPlaceholderKey(publicKey[t])
       THEN Returned(FALSE, "Recipient public key is invalid/placeholder")
       ELSE IF ~ImportsPublicKey(publicKey[t])
            THEN Returned(FALSE, "Failed to send message")
            ELSE Pending
  ELSE BroadcastResult(res)

FirstCopies(op) == {c \in Users : op.res[c].st = "sent"}

\* sendEncryptedMessage(content, senderUsername, t) called by identity s, at
\* most n sends in one behaviour
StartSendUpTo(s, t, n) ==
  /\ Len(ops) < n
  /\ t # s
  /\ LET res == [c \in Users |-> [st |-> FirstState(t, c), messageId |-> 0]]
         op == [senderId |-> s, target |-> t, res |-> res,
                result |-> FirstResult(t, res)]
         m == Len(ops) + 1
     IN /\ ops' = Append(ops, op)
        /\ posts' = posts \cup {[m |-> m, c |-> c] : c \in FirstCopies(op)}
  /\ UNCHANGED deviceVars
  /\ UNCHANGED <<publicKey, file, dbCache, clock, writes>>
  /\ UNCHANGED clientVars

StartSend(s, t) == StartSendUpTo(s, t, MaxSends)

\* POST /api/messages: getUserById reloads dbCache from the file, then
\* createMessage assigns the id, pushes and starts writing the file
HandlePost(p) ==
  /\ p \in posts
  /\ clock' = clock + 1
  /\ LET message == NewMessage(p.m, p.c, file, clock')
     IN /\ dbCache' = Append(file, message)
        /\ writes' = writes \cup
             {[m |-> p.m, c |-> p.c, id |-> message.id, content |-> dbCache']}
  /\ posts' = posts \ {p}
  /\ UNCHANGED deviceVars
  /\ UNCHANGED <<publicKey, file, ops>>
  /\ UNCHANGED clientVars

\* mutant: the send reports the result of the sender copy only
AfterResponse_Mutant(op, c, st, id) ==
  LET res == [op.res EXCEPT ![c] = [st |-> st, messageId |-> id]]
  IN IF IsDirect(op)
     THEN IF c = 1
          THEN IF ImportsPublicKey(publicKey[op.senderId])
               THEN [op EXCEPT !.res = [res EXCEPT ![2] =
                                          [st |-> "sent", messageId |-> 0]]]
               ELSE [op EXCEPT !.res = res,
                               !.result = Returned(FALSE, "Failed to send message")]
          ELSE [op EXCEPT !.res = res,
                          !.result = Returned(res[2].st = "ok", "none")]
     ELSE [op EXCEPT !.res = res, !.result = BroadcastResult(res)]

\* the send operation after api.sendMessage for copy c returned {success,
\* messageId}: a direct send goes on to the sender copy after the recipient
\* copy, whatever its result, and returns after the sender copy; a broadcast
\* returns when every task has finished
AfterResponse(op, c, st, id) ==
  LET res == [op.res EXCEPT ![c] = [st |-> st, messageId |-> id]]
  IN IF IsDirect(op)
     THEN IF c = 1
          THEN IF ImportsPublicKey(publicKey[op.senderId])
               THEN [op EXCEPT !.res = [res EXCEPT ![2] =
                                          [st |-> "sent", messageId |-> 0]]]
               ELSE [op EXCEPT !.res = res,
                               !.result = Returned(FALSE, "Failed to send message")]
          ELSE [op EXCEPT !.res = res,
                          !.result = Returned(res[1].st = "ok" /\ res[2].st = "ok",
                                              "none")]
     ELSE [op EXCEPT !.res = res, !.result = BroadcastResult(res)]

\* the requests the send posts next
NextCopies(op, c) ==
  IF IsDirect(op) /\ c = 1 /\ ImportsPublicKey(publicKey[op.senderId])
  THEN {2} ELSE {}

\* fs.writeFile completes, the handler answers {success: true, messageId},
\* and the sender's await api.sendMessage returns
WriteDone(w) ==
  /\ w \in writes
  /\ file' = w.content
  /\ writes' = writes \ {w}
  /\ ops' = [ops EXCEPT ![w.m] = AfterResponse(ops[w.m], w.c, "ok", w.id)]
  /\ posts' = posts \cup {[m |-> w.m, c |-> c] : c \in NextCopies(ops[w.m], w.c)}
  /\ UNCHANGED deviceVars
  /\ UNCHANGED <<publicKey, dbCache, clock>>
  /\ UNCHANGED clientVars

\* the request fails before createMessage (network error or error status):
\* api.sendMessage returns {success: false, messageId: ""}
FailPost(p) ==
  /\ p \in posts
  /\ ops' = [ops EXCEPT ![p.m] = AfterResponse(ops[p.m], p.c, "failed", 0)]
  /\ posts' = (posts \ {p}) \cup
               {[m |-> p.m, c |-> c] : c \in NextCopies(ops[p.m], p.c)}
  /\ UNCHANGED deviceVars
  /\ UNCHANGED <<publicKey, file, dbCache, clock, writes>>
  /\ UNCHANGED clientVars

\* ------------------------------------------------------- server-side reads
\* GET /api/messages?limit=50: getMessages reloads dbCache and slices
ServeHistory(h) ==
  /\ h \in histories
  /\ ~h.answered
  /\ dbCache' = file
  /\ histories' = (histories \ {h}) \cup
       {[h EXCEPT !.answered = TRUE, !.batch = GetMessages(dbCache', HistoryLimit)]}
  /\ UNCHANGED deviceVars
  /\ UNCHANGED <<publicKey, file, clock, ops, posts, writes>>
  /\ UNCHANGED <<recipientId, pollRecipientId, messages, lastMessageId,
                 pollingRef, timers, effectRun, polls, nRefresh>>

\* the history request fails at the transport or with an error status:
\* apiRequest throws and getMessageHistory returns []
FailHistory(h) ==
  /\ h \in histories
  /\ ~h.answered
  /\ histories' = (histories \ {h}) \cup
       {[h EXCEPT !.answered = TRUE, !.batch = <<>>]}
  /\ UNCHANGED deviceVars
  /\ UNCHANGED serverVars
  /\ UNCHANGED <<recipientId, pollRecipientId, messages, lastMessageId,
                 pollingRef, timers, effectRun, polls, nRefresh>>

\* the cursor the poll handler works with: req.query.since || "0", then
\* parseInt(messageId) || 0
SinceParam(q) == IF q = NoSince THEN 0 ELSE q

\* GET /api/messages/poll?since=, one run of checkForMessages: it answers with
\* the newer messages if there are some, answers [] if the polling time is
\* used up (after limit waits), and otherwise waits for the next check
TimedOut_Mutant(p, limit) == TRUE

\* Date.now() - startTime >= config.maxPollingTime, the time counted in waits
\* of one second
TimedOut(p, limit) == p.checks >= limit

CheckForMessages(p, limit) ==
  /\ p \in polls
  /\ ~p.answered
  /\ dbCache' = file
  /\ LET found == GetMessagesSince(dbCache', SinceParam(p.since))
     IN polls' = (polls \ {p}) \cup
          {IF Len(found) > 0 THEN [p EXCEPT !.answered = TRUE, !.batch = found]
           ELSE IF TimedOut(p, limit) THEN [p EXCEPT !.answered = TRUE]
           ELSE [p EXCEPT !.checks = p.checks + 1]}
  /\ UNCHANGED deviceVars
  /\ UNCHANGED <<publicKey, file, clock, ops, posts, writes>>
  /\ UNCHANGED <<recipientId, pollRecipientId, messages, lastMessageId,
                 pollingRef, timers, effectRun, histories, nRefresh>>

\* the long poll seen from outside: the check that answers
ServePoll(p) == CheckForMessages(p, 0)

\* ------------------------------------------------------- the synchronizer
\* cursor after loadHistory: the id of the last envelope of a non-empty batch
CursorAfterHistory(batch, cur) ==
  IF Len(batch) > 0 THEN batch[Len(batch)].id ELSE cur

\* mutant: the cursor is set to the first envelope of the batch
CursorAfterPoll_Mutant(batch, decrypted, cur) ==
  IF Len(batch) > 0 /\ Len(decrypted) > 0 THEN batch[1].id ELSE cur

\* cursor after pollForMessages: advanced only when something was decrypted
CursorAfterPoll(batch, decrypted, cur) ==
  IF Len(batch) > 0 /\ Len(decrypted) > 0 THEN batch[Len(batch)].id ELSE cur

\* visible set after pollForMessages: merge, dedup, sort
MessagesAfterPoll(prev, batch, decrypted) ==
  IF Len(batch) > 0 /\ Len(decrypted) > 0
  THEN UniqueSorted(prev \o decrypted)
  ELSE prev

\* loadHistory resumes after await api.getMessageHistory(50)
HistoryArrive(h) ==
  /\ h \in histories
  /\ h.answered
  /\ histories' = histories \ {h}
  /\ LET decrypted == DecryptBatch(h.batch, h.filt)
     IN /\ messages' = UniqueSorted(decrypted)
        /\ lastMessageId' = CursorAfterHistory(h.batch, lastMessageId)
  /\ UNCHANGED deviceVars
  /\ UNCHANGED serverVars
  /\ UNCHANGED <<recipientId, pollRecipientId, pollingRef, timers,
                 effectRun, polls, nRefresh>>

\* the loop's timer fires: poll() calls pollForMessages, which sends the
\* poll request with the cursor
TimerFire(loop) ==
  /\ loop \in timers
  /\ timers' = timers \ {loop}
  /\ polls' = polls \cup {NewPoll(loop)}
  /\ UNCHANGED deviceVars
  /\ UNCHANGED serverVars
  /\ UNCHANGED <<recipientId, pollRecipientId, messages, lastMessageId,
                 pollingRef, effectRun, histories, nRefresh>>

\* pollForMessages resumes after await api.pollMessages, then poll() sets the
\* loop's next timer and stores its id in pollingRef
PollArrive(p) ==
  /\ p \in polls
  /\ p.answered
  /\ polls' = polls \ {p}
  /\ LET decrypted == DecryptBatch(p.batch, p.filt)
     IN /\ messages' = MessagesAfterPoll(messages, p.batch, decrypted)
        /\ lastMessageId' = CursorAfterPoll(p.batch, decrypted, lastMessageId)
  /\ timers' = timers \cup {p.loop}
  /\ pollingRef' = p.loop
  /\ UNCHANGED deviceVars
  /\ UNCHANGED serverVars
  /\ UNCHANGED <<recipientId, pollRecipientId, effectRun, histories,
                 nRefresh>>

\* the effect's cleanup: clearTimeout(pollingRef.current)
TimersAfterCleanup == timers \ {pollingRef}

\* onSelectUser(u): selectedUserId changes, the effect is cleaned up and runs
\* again: loadHistory() of the new scope and a new poll loop
SelectUser(u) ==
  /\ u \in Users \ {userId}
  /\ u # recipientId
  /\ effectRun < 1 + MaxScopeChanges
  /\ recipientId' = u
  /\ effectRun' = effectRun + 1
  /\ histories' = histories \cup {NewHistory(effectRun', 0, u)}
  /\ timers' = TimersAfterCleanup \cup {effectRun'}
  /\ pollingRef' = effectRun'
  /\ UNCHANGED deviceVars
  /\ UNCHANGED serverVars
  /\ UNCHANGED <<pollRecipientId, messages, lastMessageId, polls,
                 nRefresh>>

\* onRefresh: loadHistory() of the current scope
Refresh ==
  /\ nRefresh < MaxRefresh
  /\ nRefresh' = nRefresh + 1
  /\ histories' = histories \cup {NewHistory(effectRun, nRefresh', recipientId)}
  /\ UNCHANGED deviceVars
  /\ UNCHANGED serverVars
  /\ UNCHANGED <<recipientId, pollRecipientId, messages, lastMessageId,
                 pollingRef, timers, effectRun, polls>>

\* ------------------------------------------------------- keys and sessions
\* what a store.put in a readwrite transaction can come to: the record is
\* committed; the request fails (onerror, or the database does not open) and
\* storePrivateKey throws; the request succeeds, storePrivateKey resolves on
\* request.onsuccess, and the transaction, which has no handler, is aborted
\* at its commit
StoreOutcomes == {"stored", "rejected", "aborted"}

\* the object store after storePrivateKey(u, key)
StorePrivateKey(store, u, key, outcome) ==
  IF outcome = "stored" THEN [store EXCEPT ![u] = key] ELSE store

\* getPrivateKey: the stored string, null when there is none or the read failed
GetPrivateKey(store, u, readOk) == IF readOk THEN store[u] ELSE NoKey

RegisterRequest_Mutant(pair) == [kind |-> "register", key |-> ExportPrivateKey(pair)]

\* api.register(username, password, publicKeyString)
RegisterRequest(pair) == [kind |-> "register", key |-> ExportPublicKey(pair)]

\* api.login(username, password)
LoginRequest == [kind |-> "login", key |-> NoKey]

\* api.updatePublicKey(publicKeyString)
UpdatePublicKeyRequest(pair) == [kind |-> "updatePublicKey", key |-> ExportPublicKey(pair)]

\* sendMessage, pollMessages, getMessageHistory: envelope fields, since, limit
SessionRequests ==
  {[kind |-> k, key |-> NoKey] : k \in {"append", "poll", "history"}}

\* the pair generateKeyPair makes next
NextPair == StoredPair + generated + 1

Running(op, pc, u, key) ==
  [op |-> op, pc |-> pc, user |-> u, key |-> key, read |-> NoKey,
   result |-> "pending"]

\* the operation has returned { success } to its caller
Finished(op, u, key, result) ==
  [op |-> op, pc |-> "done", user |-> u, key |-> key, read |-> NoKey,
   result |-> result]

\* a user of the seed data: registered with a placeholder for a public key
SeededUser == 2

\* a browser that may hold a session and keys of earlier visits; the server
\* holds the public key of the pair the browser has for its user, a seeded
\* user, and no third user yet
InitAuth ==
  /\ InitMessaging([u \in Users |-> KeyValid])
  /\ CacheAtRest
  /\ CryptoAtRest
  /\ ApiAtRest
  /\ \E session \in BOOLEAN,
        legacy \in {NoKey, ExportPrivateKey(LegacyPair)},
        stored \in {NoKey, ExportPrivateKey(StoredPair)} :
       /\ localStorage = [user |-> IF session THEN userId ELSE NoUser,
                          token |-> session, privateKey |-> legacy]
       /\ privateKeys = [u \in Users |-> IF u = userId THEN stored ELSE NoKey]
       /\ published = [u \in Users |->
                         IF u = userId
                         THEN (IF stored # NoKey THEN stored.pair ELSE legacy.pair)
                         ELSE IF u = SeededUser THEN NoPair ELSE Unregistered]
  /\ authState = SignedOut(TRUE)
  /\ call = Idle
  /\ requests = {}
  /\ generated = 0
  /\ reloads = 0

\* loadSession up to the migration
LoadSession ==
  /\ call.pc = "done"
  /\ authState.isLoading
  /\ IF localStorage.user = NoUser \/ ~localStorage.token
     THEN /\ authState' = [authState EXCEPT !.isLoading = FALSE]
          /\ call' = Finished("loadSession", NoUser, NoKey, "none")
     ELSE \E readOk \in BOOLEAN :
       LET u == localStorage.user
           storedPrivateKey == GetPrivateKey(privateKeys, u, readOk)
           legacyPrivateKey == localStorage.privateKey
           privateKeyString ==
             IF storedPrivateKey # NoKey THEN storedPrivateKey ELSE legacyPrivateKey
       IN IF privateKeyString = NoKey
          THEN /\ authState' = [authState EXCEPT !.isLoading = FALSE]
               /\ call' = Finished("loadSession", u, NoKey, "none")
          ELSE IF legacyPrivateKey # NoKey /\ storedPrivateKey = NoKey
          THEN /\ authState' = authState
               /\ call' = Running("loadSession", "migrate", u, legacyPrivateKey)
          ELSE /\ authState' = SignedIn(u, ImportPrivateKey(privateKeyString))
               /\ call' = Finished("loadSession", u, privateKeyString, "none")
  /\ UNCHANGED <<localStorage, privateKeys, requests, generated, reloads>>
  /\ UNCHANGED published
  /\ UNCHANGED <<serverVars, clientVars, cacheVars, cryptoVars, apiVars>>

\* loadSession: await storePrivateKey(user.id, legacyPrivateKey)
LoadSessionStore ==
  /\ call.op = "loadSession" /\ call.pc = "migrate"
  /\ \E outcome \in StoreOutcomes :
       /\ privateKeys' = StorePrivateKey(privateKeys, call.user, call.key, outcome)
       /\ IF outcome = "rejected"
          THEN /\ localStorage' = [localStorage EXCEPT !.user = NoUser,
                                                       !.token = FALSE]
               /\ authState' = [authState EXCEPT !.isLoading = FALSE]
               /\ call' = Finished("loadSession", call.user, call.key, "none")
          ELSE /\ call' = [call EXCEPT !.pc = "remove"]
               /\ UNCHANGED <<localStorage, authState>>
  /\ UNCHANGED <<requests, generated, reloads>>
  /\ UNCHANGED published
  /\ UNCHANGED <<serverVars, clientVars, cacheVars, cryptoVars, apiVars>>

\* loadSession: localStorage.removeItem("secure_msg_private_key"), setAuthState
LoadSessionRemove ==
  /\ call.op = "loadSession" /\ call.pc = "remove"
  /\ localStorage' = [localStorage EXCEPT !.privateKey = NoKey]
  /\ authState' = SignedIn(call.user, ImportPrivateKey(call.key))
  /\ call' = Finished("loadSession", call.user, call.key, "none")
  /\ UNCHANGED <<privateKeys, requests, generated, reloads>>
  /\ UNCHANGED published
  /\ UNCHANGED <<serverVars, clientVars, cacheVars, cryptoVars, apiVars>>

\* the login form is shown
FormShown ==
  /\ call.pc = "done"
  /\ ~authState.isLoading
  /\ ~authState.isAuthenticated
  /\ generated < MaxGenerated

\* register up to storePrivateKey; the server creates the user unless the
\* name is taken or the request fails
Register(u) ==
  /\ FormShown
  /\ requests' = requests \cup {RegisterRequest(NextPair)}
  /\ generated' = generated + 1
  /\ \E ok \in BOOLEAN :
       IF ok /\ published[u] = Unregistered
       THEN /\ published' = [published EXCEPT ![u] = NextPair]
            /\ localStorage' = [localStorage EXCEPT !.user = u, !.token = TRUE]
            /\ call' = Running("register", "store", u, ExportPrivateKey(NextPair))
       ELSE /\ call' = Finished("register", u, NoKey, "failure")
            /\ UNCHANGED <<localStorage, published>>
  /\ UNCHANGED <<privateKeys, authState, reloads>>
  /\ UNCHANGED <<serverVars, clientVars, cacheVars, cryptoVars, apiVars>>

\* register: await storePrivateKey(response.user.id, privateKeyString) and on
RegisterStore ==
  /\ call.op = "register" /\ call.pc = "store"
  /\ \E outcome \in StoreOutcomes :
       /\ privateKeys' = StorePrivateKey(privateKeys, call.user, call.key, outcome)
       /\ IF outcome = "rejected"
          THEN /\ call' = Finished("register", call.user, call.key, "failure")
               /\ UNCHANGED authState
          ELSE /\ call' = Finished("register", call.user, call.key, "success")
               /\ authState' = SignedIn(call.user, ImportPrivateKey(call.key))
  /\ UNCHANGED <<localStorage, requests, generated, reloads>>
  /\ UNCHANGED published
  /\ UNCHANGED <<serverVars, clientVars, cacheVars, cryptoVars, apiVars>>

\* login up to the migration or the regeneration
Login(u) ==
  /\ FormShown
  /\ requests' = requests \cup {LoginRequest}
  /\ \E ok \in BOOLEAN :
       IF ~ok \/ published[u] = Unregistered
       THEN /\ call' = Finished("login", u, NoKey, "failure")
            /\ UNCHANGED <<localStorage, authState>>
       ELSE /\ localStorage' = [localStorage EXCEPT !.user = u, !.token = TRUE]
            /\ \E readOk \in BOOLEAN :
                 LET storedPrivateKey == GetPrivateKey(privateKeys, u, readOk)
                     legacyPrivateKey == localStorage.privateKey
                 IN IF storedPrivateKey # NoKey
                    THEN /\ authState' = SignedIn(u, ImportPrivateKey(storedPrivateKey))
                         /\ call' = [Finished("login", u, storedPrivateKey, "success")
                                       EXCEPT !.read = storedPrivateKey]
                    ELSE /\ authState' = authState
                         /\ call' = IF legacyPrivateKey # NoKey
                                    THEN Running("login", "migrate", u, legacyPrivateKey)
                                    ELSE Running("login", "regenerate", u, NoKey)
  /\ UNCHANGED <<privateKeys, generated, reloads>>
  /\ UNCHANGED published
  /\ UNCHANGED <<serverVars, clientVars, cacheVars, cryptoVars, apiVars>>

\* login: await storePrivateKey(response.user.id, legacyPrivateKey)
LoginStoreLegacy ==
  /\ call.op = "login" /\ call.pc = "migrate"
  /\ \E outcome \in StoreOutcomes :
       /\ privateKeys' = StorePrivateKey(privateKeys, call.user, call.key, outcome)
       /\ call' = IF outcome = "rejected"
                  THEN Finished("login", call.user, call.key, "failure")
                  ELSE [call EXCEPT !.pc = "remove"]
  /\ UNCHANGED <<localStorage, authState, requests, generated, reloads>>
  /\ UNCHANGED published
  /\ UNCHANGED <<serverVars, clientVars, cacheVars, cryptoVars, apiVars>>

\* login: localStorage.removeItem("secure_msg_private_key"), import, setAuthState
LoginRemove ==
  /\ call.op = "login" /\ call.pc = "remove"
  /\ localStorage' = [localStorage EXCEPT !.privateKey = NoKey]
  /\ authState' = SignedIn(call.user, ImportPrivateKey(call.key))
  /\ call' = Finished("login", call.user, call.key, "success")
  /\ UNCHANGED <<privateKeys, requests, generated, reloads>>
  /\ UNCHANGED published
  /\ UNCHANGED <<serverVars, clientVars, cacheVars, cryptoVars, apiVars>>

\* login: generateKeyPair and api.updatePublicKey; the server overwrites the
\* user's public key unless the request fails
LoginRegenerate ==
  /\ call.op = "login" /\ call.pc = "regenerate"
  /\ requests' = requests \cup {UpdatePublicKeyRequest(NextPair)}
  /\ generated' = generated + 1
  /\ \E ok \in BOOLEAN :
       IF ok
       THEN /\ published' = [published EXCEPT ![call.user] = NextPair]
            /\ call' = Running("login", "store", call.user, ExportPrivateKey(NextPair))
       ELSE /\ call' = Finished("login", call.user, NoKey, "failure")
            /\ UNCHANGED published
  /\ UNCHANGED <<localStorage, privateKeys, authState, reloads>>
  /\ UNCHANGED <<serverVars, clientVars, cacheVars, cryptoVars, apiVars>>

\* login: await storePrivateKey(response.user.id, privateKeyString) and on
LoginStoreNew ==
  /\ call.op = "login" /\ call.pc = "store"
  /\ \E outcome \in StoreOutcomes :
       /\ privateKeys' = StorePrivateKey(privateKeys, call.user, call.key, outcome)
       /\ IF outcome = "rejected"
          THEN /\ call' = Finished("login", call.user, call.key, "failure")
               /\ UNCHANGED authState
          ELSE /\ call' = Finished("login", call.user, call.key, "success")
               /\ authState' = SignedIn(call.user, ImportPrivateKey(call.key))
  /\ UNCHANGED <<localStorage, requests, generated, reloads>>
  /\ UNCHANGED published
  /\ UNCHANGED <<serverVars, clientVars, cacheVars, cryptoVars, apiVars>>

KeysAfterLogout_Mutant(store, u) == [store EXCEPT ![u] = NoKey]

\* logout calls neither removePrivateKey nor clearAllPrivateKeys
KeysAfterLogout(store, u) == store

Logout ==
  /\ call.pc = "done"
  /\ authState.isAuthenticated
  /\ localStorage' = [localStorage EXCEPT !.user = NoUser, !.token = FALSE]
  /\ privateKeys' = KeysAfterLogout(privateKeys, authState.user)
  /\ authState' = SignedOut(FALSE)
  /\ call' = Finished("logout", authState.user, NoKey, "none")
  /\ UNCHANGED <<requests, generated, reloads>>
  /\ UNCHANGED published
  /\ UNCHANGED <<serverVars, clientVars, cacheVars, cryptoVars, apiVars>>

\* an authenticated session sends, polls and loads history
Transmit(r) ==
  /\ authState.isAuthenticated
  /\ requests' = requests \cup {r}
  /\ UNCHANGED <<localStorage, privateKeys, authState, call, generated, reloads>>
  /\ UNCHANGED published
  /\ UNCHANGED <<serverVars, clientVars, cacheVars, cryptoVars, apiVars>>

\* the page is closed or reloaded: the memory of the page is lost, a running
\* operation stops where it is, localStorage and IndexedDB stay
Reload ==
  /\ reloads < MaxReloads
  /\ reloads' = reloads + 1
  /\ authState' = SignedOut(TRUE)
  /\ call' = Idle
  /\ UNCHANGED <<localStorage, privateKeys, requests, generated>>
  /\ UNCHANGED published
  /\ UNCHANGED <<serverVars, clientVars, cacheVars, cryptoVars, apiVars>>

\* the user logs in from another browser, which has no key of the user: its
\* login regenerates there and overwrites the public key at the server
LoginElsewhere(u) ==
  /\ published[u] # Unregistered
  /\ generated < MaxGenerated
  /\ generated' = generated + 1
  /\ published' = [published EXCEPT ![u] = NextPair]
  /\ UNCHANGED <<localStorage, privateKeys, authState, call, requests, reloads>>
  /\ UNCHANGED <<serverVars, clientVars, cacheVars, cryptoVars, apiVars>>

NextAuth ==
  \/ LoadSession
  \/ LoadSessionStore
  \/ LoadSessionRemove
  \/ \E u \in Users : Register(u)
  \/ RegisterStore
  \/ \E u \in Users : Login(u)
  \/ LoginStoreLegacy
  \/ LoginRemove
  \/ LoginRegenerate
  \/ LoginStoreNew
  \/ Logout
  \/ \E r \in SessionRequests : Transmit(r)
  \/ Reload
  \/ \E u \in Users : LoginElsewhere(u)

AuthSpec == InitAuth /\ [][NextAuth]_vars

\* -------------------------------------------------- text through the cipher
\* UTF-16 code units of a JavaScript string: a BMP letter, U+FEFF, U+FFFD, a
\* high and a low surrogate
CodeUnits == {"a", "FEFF", "FFFD", "HI", "LO"}

Plaintexts == UNION {[1..n -> CodeUnits] : n \in 0..MaxPlainLen}

\* TextEncoder.encode: the string is converted to scalar values (a surrogate
\* pair is one scalar value, a surrogate without its partner becomes U+FFFD)
\* and these to UTF-8, which is kept here as the sequence of scalar values
RECURSIVE TextEncode(_)
TextEncode(str) ==
  IF str = <<>> THEN <<>>
  ELSE IF Len(str) >= 2 /\ str[1] = "HI" /\ str[2] = "LO"
       THEN <<"PAIR">> \o TextEncode(SubSeq(str, 3, Len(str)))
  ELSE IF str[1] \in {"HI", "LO"}
       THEN <<"FFFD">> \o TextEncode(Tail(str))
  ELSE <<str[1]>> \o TextEncode(Tail(str))

\* the code units of a sequence of scalar values
RECURSIVE ToCodeUnits(_)
ToCodeUnits(scalars) ==
  IF scalars = <<>> THEN <<>>
  ELSE (IF scalars[1] = "PAIR" THEN <<"HI", "LO">> ELSE <<scalars[1]>>)
       \o ToCodeUnits(Tail(scalars))

\* new TextDecoder().decode: ignoreBOM is false, a leading U+FEFF is dropped
TextDecode(bytes) ==
  IF bytes # <<>> /\ bytes[1] = "FEFF" THEN ToCodeUnits(Tail(bytes))
  ELSE ToCodeUnits(bytes)

\* btoa over the bytes, atob and charCodeAt back
ArrayBufferToBase64(buffer) == [base64 |-> buffer]
Base64ToArrayBuffer(str) == str.base64

\* sendEncryptedMessage for one recipient: encryptMessage, encryptAESKey
EncryptForRecipient(P, u, k, iv) ==
  [encryptedContent |-> ArrayBufferToBase64(EncryptMessage(TextEncode(P), k, iv)),
   iv |-> ArrayBufferToBase64(iv),
   encryptedKey |-> ArrayBufferToBase64(EncryptAESKey(k, u))]

\* decryptSingleMessage with the private key of owner: decryptAESKey,
\* decryptMessage; null when either throws
DecryptEnvelope(msg, owner) ==
  LET ek == Base64ToArrayBuffer(msg.encryptedKey)
      ct == Base64ToArrayBuffer(msg.encryptedContent)
      iv == Base64ToArrayBuffer(msg.iv)
  IN IF CanDecryptAESKey(ek, owner) /\ CanDecryptMessage(ct, iv, DecryptAESKey(ek, owner))
     THEN [ok |-> TRUE, by |-> owner,
           content |-> TextDecode(DecryptMessage(ct, iv, DecryptAESKey(ek, owner)))]
     ELSE [ok |-> FALSE, by |-> owner, content |-> <<>>]

InitCrypto ==
  /\ InitMessaging([u \in Users |-> KeyValid])
  /\ CacheAtRest
  /\ SessionAtRest
  /\ ApiAtRest
  /\ plaintext \in Plaintexts
  /\ envelope = <<>>
  /\ opened = <<>>

\* a one-time key k and a nonce iv are drawn and the text is encrypted for u
Encrypt(u, k, iv) ==
  /\ envelope = <<>>
  /\ envelope' = <<EncryptForRecipient(plaintext, u, k, iv)>>
  /\ UNCHANGED <<plaintext, opened>>
  /\ UNCHANGED <<serverVars, clientVars, cacheVars, authVars, apiVars>>

\* the holder of a private key decrypts the envelope
Decrypt(owner) ==
  /\ envelope # <<>>
  /\ opened = <<>>
  /\ opened' = <<DecryptEnvelope(envelope[1], owner)>>
  /\ UNCHANGED <<plaintext, envelope>>
  /\ UNCHANGED <<serverVars, clientVars, cacheVars, authVars, apiVars>>

NextCrypto ==
  \/ \E u \in Users, k \in 1..2, iv \in 1..2 : Encrypt(u, k, iv)
  \/ \E owner \in Users : Decrypt(owner)

CryptoSpec == InitCrypto /\ [][NextCrypto]_vars

\* ---------------------------------------------------- the public key cache
CacheHit_Mutant(cache, u, raw) == u \in DOMAIN cache

\* cached && cached.raw === publicKeyString
CacheHit(cache, u, raw) == u \in DOMAIN cache /\ cache[u].raw = raw

CacheSet_Mutant(cache, u, raw, key) ==
  [x \in DOMAIN cache \cup {u} |->
     IF x # u THEN cache[x]
     ELSE IF u \in DOMAIN cache THEN [raw |-> cache[u].raw, key |-> key]
     ELSE [raw |-> raw, key |-> key]]

\* publicKeyCache.set(userId, { raw: publicKeyString, key })
CacheSet(cache, u, raw, key) ==
  [x \in DOMAIN cache \cup {u} |->
     IF x = u THEN [raw |-> raw, key |-> key] ELSE cache[x]]

\* publicKeyCache.delete(userId)
CacheDelete(cache, u) == [x \in DOMAIN cache \ {u} |-> cache[x]]

\* getCachedPublicKey up to its await: a hit returns the cached handle, a
\* miss starts the import
GetCachedPublicKey(u, raw) ==
  /\ Len(resolves) < MaxResolves
  /\ resolves' = Append(resolves,
       IF CacheHit(publicKeyCache, u, raw)
       THEN [userId |-> u, raw |-> raw, pc |-> "returned",
             key |-> publicKeyCache[u].key]
       ELSE [userId |-> u, raw |-> raw, pc |-> "importing", key |-> NoHandle])
  /\ UNCHANGED publicKeyCache
  /\ UNCHANGED <<serverVars, clientVars, authVars, cryptoVars, apiVars>>

\* the import settles: the handle is cached and returned, or the entry of the
\* user is deleted and the error rethrown
ImportSettles(i) ==
  /\ i \in DOMAIN resolves
  /\ resolves[i].pc = "importing"
  /\ LET r == resolves[i]
     IN IF ImportsPublicKey(r.raw)
        THEN /\ publicKeyCache' =
                  CacheSet(publicKeyCache, r.userId, r.raw, ImportPublicKey(r.raw))
             /\ resolves' = [resolves EXCEPT ![i].pc = "returned",
                                             ![i].key = ImportPublicKey(r.raw)]
        ELSE /\ publicKeyCache' = CacheDelete(publicKeyCache, r.userId)
             /\ resolves' = [resolves EXCEPT ![i].pc = "thrown"]
  /\ UNCHANGED <<serverVars, clientVars, authVars, cryptoVars, apiVars>>

\* the sends of one client resolving keys while the directory changes
NextCache ==
  \/ \E u \in Users, raw \in CacheRaws : GetCachedPublicKey(u, raw)
  \/ \E i \in DOMAIN resolves : ImportSettles(i)

CacheSpec == Init /\ [][NextCache]_vars

Next ==
  \/ \E s \in Users, t \in Users \cup {NoRecipient} : StartSend(s, t)
  \/ \E p \in posts : HandlePost(p)
  \/ \E w \in writes : WriteDone(w)
  \/ \E p \in posts : FailPost(p)
  \/ \E h \in histories : ServeHistory(h)
  \/ \E p \in polls : CheckForMessages(p, MaxPollChecks)
  \/ \E h \in histories : HistoryArrive(h)
  \/ \E loop \in timers : TimerFire(loop)
  \/ \E p \in polls : PollArrive(p)
  \/ \E u \in Users : SelectUser(u)
  \/ Refresh

Spec == Init /\ [][Next]_vars

\* --------------------------------------------------------- other scenarios
\* the scope stays broadcast: no contact is selected and nothing is refreshed
NextFixedScope ==
  \/ \E s \in Users, t \in Users \cup {NoRecipient} : StartSend(s, t)
  \/ \E p \in posts : HandlePost(p)
  \/ \E w \in writes : WriteDone(w)
  \/ \E h \in histories : ServeHistory(h)
  \/ \E p \in polls : ServePoll(p)
  \/ \E h \in histories : HistoryArrive(h)
  \/ \E loop \in timers : TimerFire(loop)
  \/ \E p \in polls : PollArrive(p)

\* every request is eventually answered, every answer eventually handled and
\* every timer eventually fires; sends are up to the users
Answered ==
  /\ WF_vars(\E p \in posts : HandlePost(p))
  /\ WF_vars(\E w \in writes : WriteDone(w))
  /\ WF_vars(\E h \in histories : ServeHistory(h))
  /\ WF_vars(\E p \in polls : ServePoll(p))
  /\ WF_vars(\E h \in histories : HistoryArrive(h))
  /\ WF_vars(\E loop \in timers : TimerFire(loop))
  /\ WF_vars(\E p \in polls : PollArrive(p))

FairFixedScope == Init /\ [][NextFixedScope]_vars /\ Answered

\* direct messaging: contacts are selected, nothing is refreshed, sends are
\* direct
NextDirect ==
  \/ \E s \in Users, t \in Users : StartSend(s, t)
  \/ \E p \in posts : HandlePost(p)
  \/ \E w \in writes : WriteDone(w)
  \/ \E h \in histories : ServeHistory(h)
  \/ \E p \in polls : ServePoll(p)
  \/ \E h \in histories : HistoryArrive(h)
  \/ \E loop \in timers : TimerFire(loop)
  \/ \E p \in polls : PollArrive(p)
  \/ \E u \in Users : SelectUser(u)

FairDirect == Init /\ [][NextDirect]_vars /\ Answered

\* the conversation is refreshed while history requests may fail: the scope
\* stays broadcast and the other users send broadcasts
NextRefresh ==
  \/ \E s \in Users \ {userId} : StartSend(s, NoRecipient)
  \/ \E p \in posts : HandlePost(p)
  \/ \E w \in writes : WriteDone(w)
  \/ \E h \in histories : ServeHistory(h)
  \/ \E h \in histories : FailHistory(h)
  \/ \E p \in polls : ServePoll(p)
  \/ \E h \in histories : HistoryArrive(h)
  \/ \E loop \in timers : TimerFire(loop)
  \/ \E p \in polls : PollArrive(p)
  \/ Refresh

RefreshSpec == Init /\ [][NextRefresh]_vars

\* the send path alone: any keys, appends may fail, the synchronizer is idle
NextSend ==
  \/ \E s \in Users, t \in Users \cup {NoRecipient} : StartSend(s, t)
  \/ \E p \in posts : HandlePost(p)
  \/ \E w \in writes : WriteDone(w)
  \/ \E p \in posts : FailPost(p)

SendSpec == InitSend /\ [][NextSend]_vars

\* two users send a direct message to the observed client, one after the
\* other, while the client selects a contact
NextInbox ==
  \/ \E s \in Users \ {userId} :
       /\ \A m \in DOMAIN ops : ops[m].result.done /\ ops[m].senderId < s
       /\ StartSendUpTo(s, userId, MaxInbox)
  \/ \E p \in posts : HandlePost(p)
  \/ \E w \in writes : WriteDone(w)
  \/ \E h \in histories : ServeHistory(h)
  \/ \E p \in polls : ServePoll(p)
  \/ \E h \in histories : HistoryArrive(h)
  \/ \E loop \in timers : TimerFire(loop)
  \/ \E p \in polls : PollArrive(p)
  \/ \E u \in Users : SelectUser(u)

InboxSpec == Init /\ [][NextInbox]_vars

\* long polls that wait: the scope stays broadcast, a poll is answered at once
\* when there is something newer and after MaxPollChecks waits otherwise
NextLongPoll ==
  \/ \E s \in Users, t \in Users : StartSend(s, t)
  \/ \E p \in posts : HandlePost(p)
  \/ \E w \in writes : WriteDone(w)
  \/ \E h \in histories : ServeHistory(h)
  \/ \E p \in polls : CheckForMessages(p, MaxPollChecks)
  \/ \E h \in histories : HistoryArrive(h)
  \/ \E loop \in timers : TimerFire(loop)
  \/ \E p \in polls : PollArrive(p)

\* the server runs every check it has scheduled
FairLongPoll ==
  /\ Init /\ [][NextLongPoll]_vars
  /\ WF_vars(\E p \in polls : CheckForMessages(p, MaxPollChecks))
  /\ WF_vars(\E p \in polls : PollArrive(p))
  /\ WF_vars(\E loop \in timers : TimerFire(loop))

\* ------------------------------------------------------------------ claims
Range(seq) == {seq[i] : i \in DOMAIN seq}

LastId(batch) == batch[Len(batch)].id

\* the response of poll request p is handled in this step
PollHandled(p) == p \in polls /\ p.answered /\ polls' = polls \ {p}

\* the response of history request h is handled in this step
HistoryHandled(h) == h \in histories /\ h.answered /\ histories' = histories \ {h}

\* C1: the cursor never decreases: every step leaves lastMessageId at a value
\* greater than or equal to its previous value.
C1_CursorNeverDecreases == [][lastMessageId' >= lastMessageId]_vars

\* C2: when the response of a poll with a non-empty batch has been handled,
\* the cursor equals the id of the batch's last (maximum) envelope, whether
\* or not any envelope of the batch decrypted or passed the filter.
C2_CursorAtBatchMaxAfterPoll ==
  [][\A p \in polls :
       (PollHandled(p) /\ p.batch # <<>>) => lastMessageId' = LastId(p.batch)]_vars

\* most envelopes the store can hold
MaxEnvelopes == MaxSends * Cardinality(Users)

\* the entry of the visible set that envelope e decrypts to is there
VisibleEntry(e) == \E x \in Range(messages) : x = DecryptSingleMessage(e)

\* the i-th stored envelope decrypts under the own key and passes the filter
\* of the current scope
StoredEligible(i) ==
  i \in DOMAIN file /\ Decrypts(file[i]) /\ PassesFilter(file[i], recipientId)

\* C3: eventual completeness with the scope fixed: every envelope that stays
\* stored, decrypts under the own private key and passes the scope filter is,
\* from any moment on, eventually in the visible set.
C3_EventuallyComplete ==
  \A i \in 1..MaxEnvelopes :
    <>[]StoredEligible(i) => []<>(i \in DOMAIN file /\ VisibleEntry(file[i]))

\* the direct-scope predicate of the scope with peer P
DirectScopePredicate(e, P) ==
  \/ (e.senderId = P /\ e.recipientId = userId)
  \/ (e.senderId = userId /\ e.recipientId = P)
  \/ (e.senderId = userId /\ e.recipientId = userId)
  \/ (e.senderId = P /\ e.recipientId = NoRecipient)

\* C4: in direct scope with peer P, every envelope merged into the visible
\* set by a poll that was issued after the scope changed to P satisfies the
\* direct-scope predicate for the currently selected peer P.
C4_PollMergesOnlyCurrentScope ==
  [][\A p \in polls :
       (PollHandled(p) /\ p.run = effectRun /\ recipientId # NoRecipient) =>
         \A x \in Range(messages') \ Range(messages) :
           \E e \in Range(p.batch) :
             /\ x = DecryptSingleMessage(e)
             /\ DirectScopePredicate(e, recipientId)]_vars

\* the appends that were acknowledged: <<send, copy>>
Acked == {mc \in (DOMAIN ops) \X Users : ops[mc[1]].res[mc[2]].st = "ok"}

AckedId(mc) == ops[mc[1]].res[mc[2]].messageId

\* C5: envelope ids never collide: no two appends are acknowledged as stored
\* under the same id.
C5_NoIdCollision ==
  \A a, b \in Acked : a # b => AckedId(a) # AckedId(b)

\* the stored envelope is the one appended for copy c of send m
IsCopy(e, m, c) ==
  /\ e.encryptedContent = EncryptMessage(m, m, m)
  /\ e.encryptedKey = EncryptAESKey(m, CopyKeyOwner(ops[m], c))
  /\ e.senderId = ops[m].senderId
  /\ e.recipientId = CopyRecipient(ops[m], c)

\* C6: durability: an append acknowledged with an id is in the stored
\* sequence, under that id, in every later state.
C6_AckedAppendsDurable ==
  \A a \in Acked :
    \E i \in DOMAIN file : file[i].id = AckedId(a) /\ IsCopy(file[i], a[1], a[2])

\* C7: a loop issues no poll request after the effect run that started it was
\* cleaned up: every poll request in flight was issued by the loop of the
\* effect run current when it was issued.
C7_NoPollFromCancelledLoop == \A p \in polls : p.loop = p.run

\* C8: a history or poll response whose request was issued before the last
\* scope change leaves the visible set as it is.
C8_StaleResponsesDiscarded ==
  [][/\ \A h \in histories :
          (HistoryHandled(h) /\ h.run # effectRun) => messages' = messages
     /\ \A p \in polls :
          (PollHandled(p) /\ p.run # effectRun) => messages' = messages]_vars

\* the visible entry x shows the message of a direct send
FromDirectSend(x) == x.content \in DOMAIN ops /\ IsDirect(ops[x.content])

\* C9: in broadcast scope the visible set holds no message that was sent
\* directly.
C9_DirectNotInBroadcastScope ==
  recipientId = NoRecipient => \A x \in Range(messages) : ~FromDirectSend(x)

\* both appends of direct send m were acknowledged
DirectSendSucceeded(m) ==
  /\ m \in DOMAIN ops
  /\ IsDirect(ops[m])
  /\ \A c \in Copies(ops[m]) : ops[m].res[c].st = "ok"

\* the observed client is a party of direct send m and its scope is the
\* direct scope with the other party
InDirectScopeOf(m) ==
  /\ m \in DOMAIN ops
  /\ \/ (ops[m].senderId = userId /\ recipientId = ops[m].target)
     \/ (ops[m].target = userId /\ recipientId = ops[m].senderId)

EntriesFor(m) == {i \in DOMAIN messages : messages[i].content = m}

ExactlyOneEntry(m) ==
  /\ Cardinality(EntriesFor(m)) = 1
  /\ \A i \in EntriesFor(m) : messages[i].isOwn = (ops[m].senderId = userId)

\* C10: dual-copy visibility: after a successful direct send, the sender's
\* synchronizer in direct scope with the recipient and the recipient's in
\* direct scope with the sender each converge on exactly one visible entry for
\* the message, isOwn for the sender only.
C10_DualCopyConverges ==
  \A m \in 1..MaxSends :
    (DirectSendSucceeded(m) /\ InDirectScopeOf(m)) ~>
      [](InDirectScopeOf(m) => ExactlyOneEntry(m))

\* ------------------------------------------------- claims on the send path
\* the POST request p is handled by the server in this step (createMessage)
PostHandled(p) == p \in posts /\ p \notin posts' /\ clock' = clock + 1

\* the envelope createMessage pushed in this step
Pushed == dbCache'[Len(dbCache')]

\* both appends of send m were acknowledged and the send has returned
BothAppended(m) ==
  /\ ops[m].result.done
  /\ ops[m].res[1].st = "ok"
  /\ ops[m].res[2].st = "ok"

\* nothing of send m is still on its way
Quiet(m) ==
  /\ \A p \in posts : p.m # m
  /\ \A w \in writes : w.m # m

\* C11: a direct send whose two appends both succeed appends exactly two
\* envelopes, both with senderId = sender and the same ciphertext and nonce:
\* the first with recipientId = recipient and the key wrapped for the
\* recipient, the second with recipientId = sender and the key wrapped for
\* the sender.
C11_DirectSendTwoEnvelopes ==
  /\ [][\A p \in posts :
          (PostHandled(p) /\ IsDirect(ops[p.m])) =>
            LET op == ops[p.m]
                to == IF p.c = 1 THEN op.target ELSE op.senderId
            IN /\ p.c \in {1, 2}
               /\ Pushed.senderId = op.senderId
               /\ Pushed.encryptedContent = EncryptMessage(p.m, p.m, p.m)
               /\ Pushed.iv = p.m
               /\ Pushed.recipientId = to
               /\ Pushed.encryptedKey = EncryptAESKey(p.m, to)]_vars
  /\ [](\A m \in DOMAIN ops :
          (IsDirect(ops[m]) /\ BothAppended(m)) =>
            /\ Quiet(m)
            /\ {c \in Users : ops[m].res[c].st # "idle"} = {1, 2})

\* a direct send succeeded and the file holds its two envelopes
C11_Witness ==
  \E m \in DOMAIN ops :
    /\ IsDirect(ops[m]) /\ BothAppended(m)
    /\ \E i, j \in DOMAIN file :
         /\ i # j
         /\ IsCopy(file[i], m, 1) /\ IsCopy(file[j], m, 2)
         /\ file[i].encryptedKey # file[j].encryptedKey

\* the copies of send m that were acknowledged
OkCopies(m) == {c \in Users : ops[m].res[c].st = "ok"}

\* send m returns in this step
Returns(m) == m \in DOMAIN ops /\ ~ops[m].result.done /\ ops'[m].result.done

\* C12: a direct send reports success if and only if both envelopes were
\* appended; a send that returns with exactly one append acknowledged reports
\* failure and leaves the appended envelope in the store.
C12_DirectSuccessIffBoth ==
  /\ [](\A m \in DOMAIN ops :
          (IsDirect(ops[m]) /\ ops[m].result.done) =>
            (ops[m].result.success <=> OkCopies(m) = {1, 2}))
  /\ [][\A m \in DOMAIN ops :
          (IsDirect(ops[m]) /\ Returns(m) /\ Cardinality(OkCopies(m)') = 1) =>
            /\ ~ops'[m].result.success
            /\ \A c \in OkCopies(m)' :
                 (c \in OkCopies(m) => \E i \in DOMAIN file : IsCopy(file[i], m, c))
                   => (\E j \in DOMAIN file' : IsCopy(file'[j], m, c))]_vars

\* a direct send returned failure with exactly one copy in the store
C12_Witness ==
  \E m \in DOMAIN ops :
    /\ IsDirect(ops[m]) /\ ops[m].result.done /\ ~ops[m].result.success
    /\ Cardinality(OkCopies(m)) = 1
    /\ \E c \in OkCopies(m) : \E i \in DOMAIN file : IsCopy(file[i], m, c)

\* C13: a direct send to a recipient whose key is empty, holds the placeholder
\* marker or is shorter than the minimum length returns the specific error at
\* once and appends nothing.
C13_UnusableRecipientAborts ==
  \A m \in DOMAIN ops :
    LET k == publicKey[ops[m].target]
    IN (IsDirect(ops[m]) /\ (k.len = 0 \/ k.marker \/ k.len < MinKeyLength)) =>
         /\ ops[m].result = Returned(FALSE, "Recipient public key is invalid/placeholder")
         /\ \A c \in Users : ops[m].res[c].st = "idle"
         /\ Quiet(m)
         /\ \A i \in DOMAIN file :
              file[i].encryptedContent # EncryptMessage(m, m, m)

\* a direct send to a recipient with a too short key was aborted
C13_Witness ==
  \E m \in DOMAIN ops :
    /\ IsDirect(ops[m])
    /\ publicKey[ops[m].target] = KeyShort
    /\ ops[m].result.done

\* the identities a broadcast treats as usable and as unusable
UsableIds == {u \in Users : ~IsLikelyPlaceholderKey(publicKey[u])}
UnusableIds == Users \ UsableIds

\* broadcast m has returned and none of its appends failed
BroadcastDone(m) ==
  /\ ~IsDirect(ops[m])
  /\ ops[m].result.done
  /\ \A c \in Users : ops[m].res[c].st # "failed"

\* C14: fan-out completeness: with N identities holding usable keys and M
\* holding unusable keys and no append failing, a broadcast appends exactly N
\* envelopes, none for an unusable-key identity, and when M > 0 (and N > 0)
\* the send reports a success, a partial one.
C14_FanOutCompleteness ==
  \A m \in DOMAIN ops :
    BroadcastDone(m) =>
      /\ OkCopies(m) = UsableIds
      /\ (UnusableIds # {} /\ UsableIds # {}) => ops[m].result.success

\* C15: a broadcast send returns success whenever at least one envelope was
\* appended, also when recipients were skipped or appends failed.
C15_BroadcastSucceedsIfAnyAppended ==
  \A m \in DOMAIN ops :
    (~IsDirect(ops[m]) /\ ops[m].result.done /\ OkCopies(m) # {}) =>
      ops[m].result.success

\* C16: each envelope a broadcast appends is addressed to the identity it is
\* wrapped for (recipientId 1, 2, 3 among identities 1, 2, 3), all with the
\* same ciphertext and nonce and each with its own wrapped key.
C16_BroadcastEnvelopesAddressed ==
  [][\A p \in posts :
       (/\ PostHandled(p)
        /\ ~IsDirect(ops[p.m])
        /\ \A u \in Users : ~IsLikelyPlaceholderKey(publicKey[u])
                            /\ ImportsPublicKey(publicKey[u])) =>
         /\ Pushed.recipientId = p.c
         /\ Pushed.encryptedKey = EncryptAESKey(p.m, p.c)
         /\ Pushed.encryptedContent = EncryptMessage(p.m, p.m, p.m)
         /\ Pushed.iv = p.m]_vars

\* C18: fan-out failure isolation: a broadcast returns only when every task
\* has finished, every identity with a usable, importable key gets its append
\* request, and a request that is pending stays pending until the server
\* handles it or it fails itself, whatever happens to the other tasks.
C18_FanOutFailureIsolation ==
  /\ [](\A m \in DOMAIN ops :
          ~IsDirect(ops[m]) =>
            /\ ops[m].result.done => (Quiet(m) /\ FirstCopies(ops[m]) = {})
            /\ \A c \in Users :
                 (~IsLikelyPlaceholderKey(publicKey[c]) /\ ImportsPublicKey(publicKey[c]))
                   => ops[m].res[c].st \in {"sent", "ok", "failed"}
            /\ \A c \in Users :
                 ops[m].res[c].st = "sent" =>
                   ([m |-> m, c |-> c] \in posts \/ \E w \in writes : w.m = m /\ w.c = c))
  /\ [][\A p \in posts :
          ~IsDirect(ops[p.m]) =>
            \/ p \in posts'
            \/ PostHandled(p) /\ \E w \in writes' : w.m = p.m /\ w.c = p.c
            \/ ops'[p.m].res[p.c].st = "failed"]_vars

\* a broadcast has returned with one task failed and another one appended
C18_Witness ==
  \E m \in DOMAIN ops :
    /\ ~IsDirect(ops[m]) /\ ops[m].result.done
    /\ \E c, d \in Users :
         /\ ops[m].res[c].st = "failed"
         /\ ops[m].res[d].st = "ok"
         /\ \E i \in DOMAIN file : IsCopy(file[i], m, d)

\* ------------------------------------------- claims on the visible set
\* broadcast m returned success: every fan-out append was acknowledged
BroadcastAcked(m) ==
  /\ m \in DOMAIN ops
  /\ ~IsDirect(ops[m])
  /\ ops[m].result.done
  /\ ops[m].result.success

\* the broadcast-scope view shows message m once, as own for its sender only
ShownOnce(m) == m \in DOMAIN ops /\ ExactlyOneEntry(m)

\* C17: after a broadcast among identities with usable keys, the
\* broadcast-scope visible set of an identity comes to hold exactly one entry
\* for that message, isOwn for the sender only.
C17_BroadcastShownOnce ==
  \A m \in 1..MaxSends : <>BroadcastAcked(m) => <>ShownOnce(m)

\* C19: the visible set is duplicate-free: it never holds two entries with the
\* same envelope id, also after a poll returned envelopes already in it.
C19_VisibleSetDuplicateFree ==
  \A i, j \in DOMAIN messages : i # j => messages[i].id # messages[j].id

\* an envelope is in the visible set and the response of a poll that was
\* issued before it was merged, and holds it again, is about to be merged
C19_Witness ==
  \E p \in polls : \E i \in DOMAIN p.batch : \E j \in DOMAIN messages :
    /\ p.answered
    /\ Decrypts(p.batch[i])
    /\ messages[j] = DecryptSingleMessage(p.batch[i])
    /\ p.since < messages[j].id

\* C20: the visible set is ordered ascending by createdAt: consecutive entries
\* x, y have x.timestamp <= y.timestamp.
C20_VisibleSetOrdered ==
  \A i \in 1..(Len(messages) - 1) :
    messages[i].timestamp <= messages[i + 1].timestamp

\* in a direct scope the visible set holds the messages of two senders, the
\* earlier one first
C20_Witness ==
  /\ recipientId # NoRecipient
  /\ Len(messages) = 2
  /\ messages[1].senderId # recipientId
  /\ messages[2].senderId = recipientId
  /\ messages[1].timestamp < messages[2].timestamp

\* ----------------------------------------------------- claims on polling
\* pollOnce applied to a visible set and cursor, with the store as it is
PollOnce(st) ==
  LET batch == GetMessagesSince(file, SinceParam(st.cursor))
      decrypted == DecryptBatch(batch, pollRecipientId)
  IN [messages |-> MessagesAfterPoll(st.messages, batch, decrypted),
      cursor |-> CursorAfterPoll(batch, decrypted, st.cursor)]

Now == [messages |-> messages, cursor |-> lastMessageId]

\* C21: idempotent merge: in every state, a second pollOnce with nothing
\* appended since the first leaves the visible set and the cursor as the
\* first left them.
C21_PollIdempotent == PollOnce(PollOnce(Now)) = PollOnce(Now)

\* the first poll shows a new message and moves the cursor
C21_Witness ==
  /\ PollOnce(Now).messages # messages
  /\ PollOnce(Now).cursor > lastMessageId
  /\ \E p \in polls : ~p.answered /\ p.since = lastMessageId

\* the poll request p is answered in this step
PollAnswered(p) ==
  /\ p \in polls
  /\ ~p.answered
  /\ \E q \in polls' : q = [p EXCEPT !.answered = TRUE, !.batch = q.batch]

\* the answer given to p in this step
Answer(p) ==
  (CHOOSE q \in polls' : q = [p EXCEPT !.answered = TRUE, !.batch = q.batch]).batch

\* r holds exactly the envelopes of db with id > c, in the order of db
ExactlyNewer(r, db, c) ==
  /\ \A i \in DOMAIN r : r[i].id > c /\ \E j \in DOMAIN db : db[j] = r[i]
  /\ Len(r) = Cardinality({j \in DOMAIN db : db[j].id > c})
  /\ \A i, k \in DOMAIN r :
       i < k => \E j, l \in DOMAIN db : j < l /\ db[j] = r[i] /\ db[l] = r[k]

\* C22: a poll response that holds envelopes holds exactly the stored
\* envelopes with id greater than the cursor, in append order; a request
\* without cursor is read as cursor 0.
C22_PollReturnsExactlyNewer ==
  /\ [][\A p \in polls :
          (PollAnswered(p) /\ Answer(p) # <<>>) =>
            ExactlyNewer(Answer(p), file, p.since)]_vars
  /\ [](/\ GetMessagesSince(file, SinceParam(NoSince)) = file
        /\ \A c \in 0..MaxEnvelopes :
             ExactlyNewer(GetMessagesSince(file, SinceParam(c)), file, c))

\* a poll with a cursor past the first envelope was answered with the newer
\* envelope only
C22_Witness ==
  \E p \in polls :
    /\ p.answered
    /\ p.since > 0
    /\ p.batch # <<>>
    /\ \E j \in DOMAIN file : file[j].id <= p.since

\* a poll request of the loop is waiting for its answer
Waiting(loop) == \E p \in polls : p.loop = loop /\ ~p.answered

\* C23: every blocking read terminates: it is answered with the newer
\* envelopes as soon as a check finds some, with an empty result only by a
\* check that found none after the polling time was used up, and it never
\* waits on when a check has found newer envelopes.
C23_BlockingReadTerminates ==
  /\ \A loop \in 1..(1 + MaxScopeChanges) : Waiting(loop) ~> ~Waiting(loop)
  /\ [][\A p \in polls :
          LET found == GetMessagesSince(file, SinceParam(p.since))
          IN /\ (PollAnswered(p) /\ Answer(p) = <<>>) =>
                  (found = <<>> /\ p.checks >= MaxPollChecks)
             /\ (~p.answered /\ p \notin polls' /\ found # <<>>) =>
                  (PollAnswered(p) /\ Answer(p) = found)
             /\ (~p.answered /\ [p EXCEPT !.checks = p.checks + 1] \in polls') =>
                  (found = <<>> /\ p.checks < MaxPollChecks)]_vars

\* a long poll that found nothing at first was answered with an envelope
\* appended while it waited
C23_Witness ==
  \E p \in polls : p.answered /\ p.checks > 0 /\ p.batch # <<>>

\* --------------------------------------------- claims on the public key cache
\* the call was answered from the cache in this step
AnsweredFromCache(i) ==
  /\ i \notin DOMAIN resolves
  /\ i \in DOMAIN resolves'
  /\ resolves'[i].pc = "returned"

\* the import of the call settles with a handle in this step
Imported(i) ==
  /\ i \in DOMAIN resolves
  /\ resolves[i].pc = "importing"
  /\ resolves'[i].pc = "returned"

\* C24: getCachedPublicKey(userId, raw) returns the handle imported from
\* exactly raw: the entry of userId is reused only when its stored raw string
\* equals raw, and a call with a differing raw string replaces the entry with
\* a fresh import of raw.
C24_ResolveReturnsImportOfRaw ==
  [][\A i \in 1..MaxResolves :
       /\ AnsweredFromCache(i) =>
            /\ resolves'[i].userId \in DOMAIN publicKeyCache
            /\ publicKeyCache[resolves'[i].userId].raw = resolves'[i].raw
            /\ resolves'[i].key = ImportPublicKey(resolves'[i].raw)
       /\ Imported(i) =>
            /\ resolves'[i].key = ImportPublicKey(resolves[i].raw)
            /\ publicKeyCache'[resolves[i].userId] =
                 [raw |-> resolves[i].raw, key |-> ImportPublicKey(resolves[i].raw)]]_vars

\* a user's key was cached, then replaced in the directory, and a call with
\* the new string has returned
C24_Witness ==
  \E i, j \in DOMAIN resolves :
    /\ i < j
    /\ resolves[i].userId = resolves[j].userId
    /\ resolves[i].raw = KeyValid /\ resolves[i].pc = "returned"
    /\ resolves[j].raw = KeyRotated /\ resolves[j].pc = "returned"
    /\ publicKeyCache[resolves[j].userId].raw = KeyRotated

\* C25: concurrent getCachedPublicKey calls never corrupt the cache: every
\* entry's handle is the import of the entry's own raw string, and every call
\* that returned has the import of its own raw argument.
C25_ConcurrentResolvesKeepCache ==
  /\ \A u \in DOMAIN publicKeyCache :
       publicKeyCache[u].key = ImportPublicKey(publicKeyCache[u].raw)
  /\ \A i \in DOMAIN resolves :
       resolves[i].pc = "returned" => resolves[i].key = ImportPublicKey(resolves[i].raw)

\* two calls for the same user with different strings were importing at the
\* same time and both have returned
C25_Witness ==
  \E i, j \in DOMAIN resolves :
    /\ i < j
    /\ resolves[i].userId = resolves[j].userId
    /\ resolves[i].raw # resolves[j].raw
    /\ resolves[i].pc = "returned" /\ resolves[j].pc = "returned"
    /\ resolves[i].key # resolves[j].key
    /\ publicKeyCache[resolves[i].userId].raw = resolves[i].raw

\* ------------------------------------------------- claims on the private key
\* the private key string is in localStorage or in the secure store
KeyHeld(k) ==
  \/ localStorage.privateKey = k
  \/ \E u \in Users : privateKeys[u] = k

\* the same of the places after the step
KeyHeldNext(k) ==
  \/ localStorage'.privateKey = k
  \/ \E u \in Users : privateKeys'[u] = k

\* C26: during the migration of a private key from localStorage to the
\* secure store, in loadSession and in login, the key stays in at least one
\* of the two places with every step, also when the write to the secure store
\* fails or the page stops between the two steps.
C26_MigrationKeepsKey ==
  [][(call.pc \in {"migrate", "remove"} /\ KeyHeld(call.key))
       => KeyHeldNext(call.key)]_vars

\* the write of the operation's private key did not reach the secure store
\* and the operation returns in this step
ReturnsUnstored ==
  /\ call.op \in {"register", "login"}
  /\ call.pc = "store"
  /\ call'.op = call.op
  /\ call'.pc = "done"
  /\ privateKeys'[call.user] # call.key

\* C27: when the write of a newly generated private key to the secure store
\* fails in register or in the regeneration path of login, the operation
\* returns a failure and the session does not become authenticated.
C27_PersistFailurePropagates ==
  [][ReturnsUnstored =>
       (call'.result = "failure" /\ ~authState'.isAuthenticated)]_vars

\* the step is a logout
IsLogout == authState.isAuthenticated /\ call'.op = "logout" /\ call.pc = "done"

\* the step is a login whose getPrivateKey returned the string in the store
LoginReadsStoredKey ==
  /\ call.pc = "done"
  /\ call' # call
  /\ call'.op = "login"
  /\ call'.read # NoKey

C29_PrivateKeyNeverSent ==
  \A r \in requests : r.key.kind # "private"

\* keys were generated at registration and at a login, their public strings
\* were sent, their private strings are in the secure store, and the session
\* has sent an envelope
C29_Witness ==
  /\ \E r \in requests : r.kind = "register" /\ r.key.kind = "public"
  /\ \E r \in requests : r.kind = "updatePublicKey" /\ r.key.kind = "public"
  /\ \E r \in requests : r.kind = "append"
  /\ \E u \in Users : privateKeys[u].pair > StoredPair

\* ------------------------------------------------------ claims on the cipher
\* the envelope was opened with the private key of the pair it was made for
DecryptedByRecipient ==
  /\ opened # <<>>
  /\ Base64ToArrayBuffer(envelope[1].encryptedKey).wrappedFor = opened[1].by

\* C30: round trip: decrypting, with the private key of a pair, the envelope
\* made by encrypting P and wrapping the one-time key under the public key of
\* that pair gives exactly P, for every plaintext P.
C30_RoundTrip ==
  DecryptedByRecipient => (opened[1].ok /\ opened[1].content = plaintext)

\* the string holds no surrogate without its partner and does not begin with
\* U+FEFF
WellFormed(str) ==
  /\ (str # <<>> => str[1] # "FEFF")
  /\ \A i \in DOMAIN str :
       /\ str[i] = "HI" => (i < Len(str) /\ str[i + 1] = "LO")
       /\ str[i] = "LO" => (i > 1 /\ str[i - 1] = "HI")

\* the round trip of the well-formed strings
C30_RoundTripWellFormed ==
  (DecryptedByRecipient /\ WellFormed(plaintext)) =>
    (opened[1].ok /\ opened[1].content = plaintext)

\* -------------------------------------------- claims on failures and scopes
\* the batch is merged with its failing envelopes left out: every envelope
\* that decrypts and passes the filter has an entry, and every new entry is
\* the decryption of an envelope of the batch that decrypts
MergedWithoutFailures(batch, filt) ==
  /\ \A i \in DOMAIN batch :
       (Decrypts(batch[i]) /\ PassesFilter(batch[i], filt)) =>
         \E x \in Range(messages') : x.id = batch[i].id
  /\ \A x \in Range(messages') \ Range(messages) :
       \E i \in DOMAIN batch :
         Decrypts(batch[i]) /\ x = DecryptSingleMessage(batch[i])

\* C31: an envelope of a history or poll batch that fails to decrypt under
\* the own private key is dropped, every other envelope of the batch is still
\* decrypted and merged, and the poll loop keeps running afterwards.
C31_DecryptFailureIsolated ==
  [][/\ \A p \in polls : PollHandled(p) =>
          (MergedWithoutFailures(p.batch, p.filt) /\ p.loop \in timers')
     /\ \A h \in histories : HistoryHandled(h) =>
          (MergedWithoutFailures(h.batch, h.filt) /\ timers' = timers)]_vars

\* a batch held an envelope wrapped for somebody else and one for this
\* client; the second is visible, the cursor is past both and the loop goes on
C31_Witness ==
  /\ \E e \in Range(file) : ~Decrypts(e) /\ e.id <= lastMessageId
  /\ \E e \in Range(file) :
       /\ Decrypts(e) /\ e.id <= lastMessageId
       /\ \E x \in Range(messages) : x.id = e.id
  /\ timers # {} \/ polls # {}

\* the entry shows a message this client sent directly to the peer B
SentDirectlyTo(x, B) ==
  /\ x.content \in DOMAIN ops
  /\ ops[x.content].senderId = userId
  /\ ops[x.content].target = B

\* C32: in the direct scope with peer P a self-addressed envelope is visible
\* only as the copy of a message sent to P: a message this client sent
\* directly to another peer B never appears in the direct scope with P.
C32_SelfCopyOnlyOfCurrentPeer ==
  [][\A h \in histories :
       (HistoryHandled(h) /\ h.run = effectRun /\ h.filt # NoRecipient) =>
         \A x \in Range(messages'), B \in Users \ {userId, h.filt} :
           ~SentDirectlyTo(x, B)]_vars

\* ------------------------------------------ claims on the published key
\* the login on this browser generates a key pair in this step
LoginGenerates ==
  /\ call.op = "login"
  /\ call.pc = "regenerate"
  /\ call' # call
  /\ generated' # generated

\* C33: login regenerates only if no local private key exists: when a private
\* key of the user is in the secure store or in the legacy location, login
\* generates no key pair and does not overwrite the published public key,
\* also when reading the secure store fails.
C33_RegenerateOnlyWithoutKey ==
  [][LoginGenerates =>
       (privateKeys[call.user] = NoKey /\ localStorage.privateKey = NoKey)]_vars

\* a login or a registration returns success in this step
ReturnsSuccess ==
  /\ call' # call
  /\ call'.op \in {"login", "register"}
  /\ call'.result = "success"

\* C34: after every successful login or registration the private key of the
\* session is the counterpart of the public key published for the user at
\* the server.
C34_SessionKeyMatchesPublished ==
  [][ReturnsSuccess =>
       (authState'.isAuthenticated /\
        authState'.privateKey = published'[call'.user])]_vars

\* login has published a new public key and returns a failure in this step
RegenerationFails ==
  /\ call.op = "login"
  /\ call.pc = "store"
  /\ call'.op = "login"
  /\ call'.pc = "done"
  /\ call'.result = "failure"

\* C35: a login that fails in the regeneration path leaves the published
\* public key of the user as it was: the key at the server is overwritten
\* with the newly generated one only if its private key ends up in the secure
\* store.
C35_FailedRegenerationKeepsPublished ==
  [][RegenerationFails => published'[call.user] # call.key.pair]_vars

\* ------------------------------------------------ claims on failed fetches
\* loadHistory resumes in this step with no envelopes: the fetch failed, or the
\* server had nothing
HistoryHandledEmpty ==
  \E h \in histories :
    /\ h.answered
    /\ Len(h.batch) = 0
    /\ histories' = histories \ {h}

\* C36: a history fetch that fails at the transport, or returns no envelopes,
\* never empties a visible set that holds messages while the cursor stays at
\* an id greater than 0.
C36_EmptyHistoryKeepsMessages ==
  [][(HistoryHandledEmpty /\ Len(messages) > 0 /\ lastMessageId' > 0)
        => Len(messages') > 0]_vars

\* ----------------------------------------------- claims on the poll loops
\* the poll requests of the client the server has not answered yet
PollsInFlight == {p \in polls : ~p.answered}

\* C37: at most one poll request of the client's synchronizer is in flight at
\* any time, whatever the scope changes and poll completions.
C37_OnePollInFlight == Cardinality(PollsInFlight) <= 1

\* -------------------------------------------- accounts and attribution
\* the account and append handlers of the server with the database they
\* share: every read reloads dbCache from the file, every change pushes to
\* dbCache and writes the whole of it to the file

MaxRegistrations == 2
MaxAppends == 1

Usernames == {"ann", "bob"}

\* crypto.randomUUID() of createUser: the ids the requests can get
UserIds == 1..MaxRegistrations

\* a JWT: signed with config.jwtSecret by the server, or made by a client
\* that does not have the secret
SignToken(id, name) == [userId |-> id, username |-> name, signed |-> TRUE]

ForgedTokens ==
  {[userId |-> id, username |-> name, signed |-> FALSE] :
     id \in UserIds, name \in Usernames}

\* the tokens a request can carry in its authorization header
Tokens ==
  {SignToken(id, name) : id \in UserIds, name \in Usernames} \cup ForgedTokens

\* senderId and senderUsername a request body can carry
Bodies == [senderId : UserIds, senderUsername : Usernames]

\* dbCache.users.find((u) => u.username === username) is not undefined
GetUserByUsername(db, name) ==
  \E k \in DOMAIN db.users : db.users[k].username = name

\* dbCache.users.find((u) => u.id === userId) is not undefined
GetUserById(db, id) == \E k \in DOMAIN db.users : db.users[k].id = id

\* dbCache.sessions.find((s) => s.token === token) is not undefined
GetSession(db, token) == token \in db.sessions

\* createUser: the user is pushed to dbCache.users
CreateUser(db, id, name) ==
  [db EXCEPT !.users = Append(@, [id |-> id, username |-> name])]

\* addSession: the session is pushed to dbCache.sessions
AddSession(db, token) == [db EXCEPT !.sessions = @ \cup {token}]

\* mutant: the handler stores the sender the request body names
Sender_Mutant(req) ==
  [senderId |-> req.body.senderId, senderUsername |-> req.body.senderUsername]

\* the sender POST /api/messages hands to createMessage: req.user, which
\* authenticateToken has set from the verified token
Sender(req) ==
  [senderId |-> req.user.userId, senderUsername |-> req.user.username]

\* createMessage for append request a: the content names the request
CreateMessage(db, a, req) ==
  [db EXCEPT !.messages =
     Append(@, [id |-> Len(db.messages) + 1,
                senderId |-> Sender(req).senderId,
                senderUsername |-> Sender(req).senderUsername,
                encryptedContent |-> a])]

\* a registration request arrives
RegisterArrive(name) ==
  /\ Len(registrations) < MaxRegistrations
  /\ registrations' = Append(registrations,
       [username |-> name, pc |-> "check", content |-> EmptyDatabase])
  /\ UNCHANGED <<database, databaseFile, appends>>
  /\ UNCHANGED <<serverVars, clientVars, cacheVars, authVars, cryptoVars>>

\* await getUserByUsername(username): the database is reloaded; an existing
\* user ends the request with status 400, otherwise bcrypt.hash starts
RegisterCheck(r) ==
  /\ r \in DOMAIN registrations
  /\ registrations[r].pc = "check"
  /\ database' = databaseFile
  /\ registrations' = [registrations EXCEPT ![r].pc =
       IF GetUserByUsername(database', registrations[r].username)
       THEN "exists" ELSE "hash"]
  /\ UNCHANGED <<databaseFile, appends>>
  /\ UNCHANGED <<serverVars, clientVars, cacheVars, authVars, cryptoVars>>

\* bcrypt.hash has resolved: createUser pushes the user and starts writing
\* the file
RegisterCreate(r) ==
  /\ r \in DOMAIN registrations
  /\ registrations[r].pc = "hash"
  /\ database' = CreateUser(database, r, registrations[r].username)
  /\ registrations' = [registrations EXCEPT ![r].pc = "saveUser",
                                             ![r].content = database']
  /\ UNCHANGED <<databaseFile, appends>>
  /\ UNCHANGED <<serverVars, clientVars, cacheVars, authVars, cryptoVars>>

\* the write of createUser is done: jwt.sign, then addSession pushes the
\* session and starts writing the file
RegisterSession(r) ==
  /\ r \in DOMAIN registrations
  /\ registrations[r].pc = "saveUser"
  /\ databaseFile' = registrations[r].content
  /\ database' = AddSession(database, SignToken(r, registrations[r].username))
  /\ registrations' = [registrations EXCEPT ![r].pc = "saveSession",
                                             ![r].content = database']
  /\ UNCHANGED appends
  /\ UNCHANGED <<serverVars, clientVars, cacheVars, authVars, cryptoVars>>

\* the write of addSession is done: the handler answers with the token
RegisterDone(r) ==
  /\ r \in DOMAIN registrations
  /\ registrations[r].pc = "saveSession"
  /\ databaseFile' = registrations[r].content
  /\ registrations' = [registrations EXCEPT ![r].pc = "done"]
  /\ UNCHANGED <<database, appends>>
  /\ UNCHANGED <<serverVars, clientVars, cacheVars, authVars, cryptoVars>>

\* the client that registered as request c posts a message: with the token it
\* was given or with one it made up, and with any sender in the body
PostMessage(c, token, body) ==
  /\ Len(appends) < MaxAppends
  /\ c \in DOMAIN registrations
  /\ registrations[c].pc = "done"
  /\ token \in {SignToken(c, registrations[c].username)} \cup ForgedTokens
  /\ appends' = Append(appends,
       [caller |-> c, token |-> token, body |-> body, pc |-> "auth",
        user |-> token, content |-> EmptyDatabase])
  /\ UNCHANGED <<database, databaseFile, registrations>>
  /\ UNCHANGED <<serverVars, clientVars, cacheVars, authVars, cryptoVars>>

\* authenticateToken: jwt.verify throws for a token not signed with the
\* secret (403); getSession reloads the database, no session ends the request
\* (401); otherwise req.user is set from the decoded token
AuthenticateToken(a) ==
  /\ a \in DOMAIN appends
  /\ appends[a].pc = "auth"
  /\ IF ~appends[a].token.signed
     THEN /\ appends' = [appends EXCEPT ![a].pc = "forbidden"]
          /\ UNCHANGED database
     ELSE /\ database' = databaseFile
          /\ appends' = [appends EXCEPT
               ![a].pc = IF GetSession(database', appends[a].token)
                         THEN "handler" ELSE "unauthorized",
               ![a].user = appends[a].token]
  /\ UNCHANGED <<databaseFile, registrations>>
  /\ UNCHANGED <<serverVars, clientVars, cacheVars, authVars, cryptoVars>>

\* POST /api/messages after authenticateToken: getUserById reloads the
\* database, no sender ends the request (404); createMessage pushes the
\* message and starts writing the file
AppendMessage(a) ==
  /\ a \in DOMAIN appends
  /\ appends[a].pc = "handler"
  /\ IF GetUserById(databaseFile, appends[a].user.userId)
     THEN /\ database' = CreateMessage(databaseFile, a, appends[a])
          /\ appends' = [appends EXCEPT ![a].pc = "save",
                                         ![a].content = database']
     ELSE /\ database' = databaseFile
          /\ appends' = [appends EXCEPT ![a].pc = "notFound"]
  /\ UNCHANGED <<databaseFile, registrations>>
  /\ UNCHANGED <<serverVars, clientVars, cacheVars, authVars, cryptoVars>>

\* the write of createMessage is done: the handler answers
AppendDone(a) ==
  /\ a \in DOMAIN appends
  /\ appends[a].pc = "save"
  /\ databaseFile' = appends[a].content
  /\ appends' = [appends EXCEPT ![a].pc = "done"]
  /\ UNCHANGED <<database, registrations>>
  /\ UNCHANGED <<serverVars, clientVars, cacheVars, authVars, cryptoVars>>

NextApi ==
  \/ \E name \in Usernames : RegisterArrive(name)
  \/ \E r \in UserIds : RegisterCheck(r)
  \/ \E r \in UserIds : RegisterCreate(r)
  \/ \E r \in UserIds : RegisterSession(r)
  \/ \E r \in UserIds : RegisterDone(r)
  \/ \E c \in UserIds, token \in Tokens, body \in Bodies :
       PostMessage(c, token, body)
  \/ \E a \in 1..MaxAppends : AuthenticateToken(a)
  \/ \E a \in 1..MaxAppends : AppendMessage(a)
  \/ \E a \in 1..MaxAppends : AppendDone(a)

ApiSpec == Init /\ [][NextApi]_vars

\* the messages of the cache and of the file
StoredMessages == Range(database.messages) \cup Range(databaseFile.messages)

\* C38: every stored envelope carries the id and the name of the
\* authenticated caller of its append request, whatever sender the request
\* body names.
C38_SenderIsCaller ==
  \A msg \in StoredMessages :
    LET req == appends[msg.encryptedContent]
    IN /\ msg.senderId = req.caller
       /\ msg.senderUsername = registrations[req.caller].username

\* an envelope is stored for a request whose body names another user
C38_Witness ==
  \E msg \in Range(databaseFile.messages) :
    LET req == appends[msg.encryptedContent]
    IN /\ req.body.senderId # req.caller
       /\ req.body.senderUsername # registrations[req.caller].username

\* no two users of db have the same username
UniqueUsernames(db) ==
  \A j, k \in DOMAIN db.users :
    db.users[j].username = db.users[k].username => j = k

\* C39: no two users in the store have the same username, whatever the
\* interleaving of the registration requests.
C39_UsernamesUnique ==
  UniqueUsernames(database) /\ UniqueUsernames(databaseFile)

====
